---- MODULE Spec2Model ----
(***************************************************************************)
(* course2zwift: a CSV log of (time, power, text) rows is read, parsed     *)
(* into steps, folded into steady-state sections and printed as a workout  *)
(* document (src/src/main.rs).                                             *)
(*                                                                         *)
(* Conventions of the model                                                *)
(*   - Option<T>: the value None stands for Rust's None.                   *)
(*   - NaiveTime: the number of seconds since midnight, 0 .. DaySeconds-1. *)
(*   - Record.time: a string in the code; here the seconds it parses to,   *)
(*     or BadTime for a string that "%H:%M:%S" rejects.                    *)
(*   - Record.text: the texts of different rows are different strings; a   *)
(*     row's text is modelled by the row's 1-based line number.            *)
(*   - Section.power: f64 with two decimals in the code; here the integer  *)
(*     number of hundredths (0.67 is 67).                                  *)
(*   - acceleration and scale: f64 in the code; here positive integers.    *)
(***************************************************************************)
EXTENDS Integers, Sequences, FiniteSets, TLC

(* ------------------------------ bounds --------------------------------- *)
\* rows in the input file
MaxRows == 3
\* arguments of round when it is exercised on its own
MaxOffset == 70
MaxStep == 12

(* --------------------------- program constants ------------------------- *)
None == -1
BadTime == -2
DaySeconds == 86400
DEFAULT_DURATION_RASTER == 30
HintRaster == 5

(* ------------------------------ input sets ----------------------------- *)
TimeModes == {"time", "duration", "stopwatch"}
\* raster and acceleration of a run
Setups == {[raster |-> DEFAULT_DURATION_RASTER, acceleration |-> 1],
           [raster |-> 7, acceleration |-> 2],
           [raster |-> 4, acceleration |-> 1]}
Ftps == {150}
Scales == {1}
\* time fields of the rows: clock times in "time" mode, durations in "duration" mode
ClockTimes == {0, 30, 60}
Durations == {0, 30, 43200}
Watts == {100, 150}

VARIABLES
    time_mode,      \* CourseBuilder.time_mode
    ftp,            \* CourseBuilder.ftp
    acceleration,   \* CourseBuilder.acceleration
    scale,          \* CourseBuilder.scale
    raster,         \* CourseBuilder.raster
    pc,             \* where the run is: main, open, read_csv_file, parse_records,
                    \* translate, println, done, failed, panicked
    line,           \* the loop counter `line` of read_csv_file / parse_records
    records,        \* Vec<Record> read so far
    steps,          \* Vec<Step> of parse_records
    last_time,      \* parse_records: last_time
    pos,            \* translate: number of steps consumed by the for loop
    out,            \* translate: out
    cur_sec,        \* translate: cur_sec, <<>> for None and <<sec>> for Some(sec)
    err,            \* the error the run returned
    stdout,         \* what was written to standard output: <<>> or <<document>>
    arg_offset,     \* round: offset
    arg_step,       \* round: step
    ret_round       \* round: returned value

vars == <<time_mode, ftp, acceleration, scale, raster, pc, line, records, steps,
          last_time, pos, out, cur_sec, err, stdout, arg_offset, arg_step, ret_round>>

cfgVars == <<time_mode, ftp, acceleration, scale, raster>>
roundVars == <<arg_offset, arg_step, ret_round>>

(* ------------------------------ helpers -------------------------------- *)
Max(a, b) == IF a >= b THEN a ELSE b

\* f64::round of a / b for a >= 0, b > 0: nearest integer, ties away from zero
RoundDiv(a, b) == (2 * a + b) \div (2 * b)

NoError == [kind |-> "none", line |-> 0]
Error(kind, ln) == [kind |-> kind, line |-> ln]

(* ------------------------------- round --------------------------------- *)
MutRoundFloor(offset, step) == Max(step, (offset \div step) * step)

MutRoundNoClip(offset, step) == RoundDiv(offset, step) * step

round(offset, step) == Max(step, RoundDiv(offset, step) * step)

(* ------------------------------- run ----------------------------------- *)
MutRunNextIgnoreErr(stage, ok) ==
    CASE stage = "open" -> "read_csv_file"
      [] stage = "read_csv_file" -> "parse_records"
      [] stage = "parse_records" -> "translate"
      [] stage = "translate" -> "println"
      [] stage = "println" -> "done"

\* run: each call is followed by `?`; an Err ends the run before the next stage
RunNext(stage, ok) ==
    IF ~ok THEN "failed"
    ELSE CASE stage = "open" -> "read_csv_file"
           [] stage = "read_csv_file" -> "parse_records"
           [] stage = "parse_records" -> "translate"
           [] stage = "translate" -> "println"
           [] stage = "println" -> "done"

(* ------------------------------- main ---------------------------------- *)
MutValidModeAny(mode) == TRUE

ValidMode(mode) == mode \in {"time", "duration"}

Main ==
    /\ pc = "main"
    /\ pc' = IF ValidMode(time_mode) THEN "open" ELSE "panicked"
    /\ UNCHANGED <<cfgVars, line, records, steps, last_time, pos, out, cur_sec,
                   err, stdout, roundVars>>

(* --------------------------- read_csv_file ----------------------------- *)
\* File::open and read_to_string
Open ==
    /\ pc = "open"
    /\ \E ok \in BOOLEAN :
         /\ pc' = RunNext("open", ok)
         /\ err' = IF ok THEN err ELSE Error("io", 0)
    /\ line' = 0
    /\ records' = <<>>
    /\ UNCHANGED <<cfgVars, steps, last_time, pos, out, cur_sec, stdout, roundVars>>

TimeFields == IF time_mode = "duration" THEN Durations ELSE ClockTimes

\* the rows the reader can deserialize as row number ln: rows with power only,
\* with power and text, with text only, with neither, and one row whose time
\* string does not parse
Rows(ln) ==
    [time : TimeFields, power : Watts, text : {None}]
        \cup [time : TimeFields, power : {150, None}, text : {ln}]
        \cup [time : TimeFields, power : {None}, text : {None}]
        \cup {[time |-> BadTime, power |-> None, text |-> None]}

\* one iteration of `for record in reader.deserialize()`
ReadRecord ==
    /\ pc = "read_csv_file"
    /\ line < MaxRows
    /\ line' = line + 1
    /\ \/ /\ pc' = RunNext("read_csv_file", FALSE)
          /\ err' = Error("csv", line + 1)
          /\ UNCHANGED records
       \/ \E record \in Rows(line + 1) :
             /\ records' = Append(records, record)
             /\ UNCHANGED <<pc, err>>
    /\ UNCHANGED <<cfgVars, steps, last_time, pos, out, cur_sec, stdout, roundVars>>

\* the reader is exhausted: Ok(records); parse_records starts
ReadEnd ==
    /\ pc = "read_csv_file"
    /\ pc' = RunNext("read_csv_file", TRUE)
    /\ line' = 0
    /\ steps' = <<>>
    /\ last_time' = 0
    /\ UNCHANGED <<cfgVars, records, pos, out, cur_sec, err, stdout, roundVars>>

(* --------------------------- parse_records ----------------------------- *)
parse_step_ok(record) == record.time # BadTime

parse_step(record) == [time |-> record.time, watts |-> record.power, text |-> record.text]

\* NaiveTime + Duration wraps around midnight
AddSeconds(t, secs) == (t + secs) % DaySeconds

\* one iteration of `for result in records`
ParseRecord ==
    /\ pc = "parse_records"
    /\ line < Len(records)
    /\ line' = line + 1
    /\ LET result == records[line + 1]
           step == parse_step(result)
       IN  IF ~parse_step_ok(result)
           THEN /\ pc' = RunNext("parse_records", FALSE)
                /\ err' = Error("parse", 0)
                /\ UNCHANGED <<steps, last_time>>
           ELSE IF time_mode = "duration"
           THEN /\ steps' = Append(steps, [step EXCEPT !.time = last_time])
                /\ last_time' = AddSeconds(last_time, step.time)
                /\ UNCHANGED <<pc, err>>
           ELSE IF step.time < last_time
                THEN /\ pc' = RunNext("parse_records", FALSE)
                     /\ err' = Error("order", line + 1)
                     /\ UNCHANGED <<steps, last_time>>
                ELSE /\ steps' = Append(steps, step)
                     /\ UNCHANGED <<pc, err, last_time>>
    /\ UNCHANGED <<cfgVars, records, pos, out, cur_sec, stdout, roundVars>>

\* Ok(steps); translate starts
ParseEnd ==
    /\ pc = "parse_records"
    /\ line = Len(records)
    /\ pc' = RunNext("parse_records", TRUE)
    /\ pos' = 0
    /\ out' = <<>>
    /\ cur_sec' = <<>>
    /\ UNCHANGED <<cfgVars, line, records, steps, last_time, err, stdout, roundVars>>

(* ------------------------------ translate ------------------------------ *)
\* step.time.num_seconds_from_midnight() / acceleration, rounded
local_time(step) == RoundDiv(step.time, acceleration)

MutPowerTruncated(step) ==
    IF step.watts = None THEN None
    ELSE (step.watts * scale * 100) \div ftp

\* watts * scale / ftp * 100, rounded; the model keeps the hundredths
power(step) ==
    IF step.watts = None THEN None
    ELSE RoundDiv(step.watts * scale * 100, ftp)

\* offset of the sample in the open section; 0 when none is open or the sample is not after its start
Offset(cur, t) ==
    IF cur # <<>> /\ t > cur[1].start THEN t - cur[1].start ELSE 0

MutAdjustAlways(cur, t) ==
    IF cur # <<>>
    THEN <<[cur[1] EXCEPT !.duration = round(Max(0, t - cur[1].start), raster)]>>
    ELSE cur

\* the open section's duration follows the sample
Adjust(cur, t) ==
    IF cur # <<>> /\ t > cur[1].start
    THEN <<[cur[1] EXCEPT !.duration = round(t - cur[1].start, raster)]>>
    ELSE cur

Hint(offset, text) == [offset |-> offset, text |-> text]

MutDecideOrphan(cur, p, text) ==
    IF cur # <<>> /\ p = None /\ text # None THEN "add_text"
    ELSE IF p # None \/ text # None THEN "new_section"
    ELSE "nothing"

MutDecideMerge(cur, p, text) ==
    IF cur # <<>> /\ p = None /\ text # None THEN "add_text"
    ELSE IF p # None /\ (cur = <<>> \/ cur[1].power # p) THEN "new_section"
    ELSE "nothing"

\* the arm of `match (&mut cur_sec, power, &step.text)` that is taken
Decide(cur, p, text) ==
    IF cur # <<>> /\ p = None /\ text # None THEN "add_text"
    ELSE IF p # None THEN "new_section"
    ELSE "nothing"

MutAddTextCover(sec, offset, text) ==
    LET rounded_offset == round(offset, HintRaster)
    IN  [sec EXCEPT !.text = Append(@, Hint(rounded_offset, text)),
                    !.duration = IF @ < rounded_offset THEN rounded_offset ELSE @]

MutAddTextFront(sec, offset, text) ==
    LET rounded_offset == round(offset, HintRaster)
    IN  [sec EXCEPT !.text = <<Hint(rounded_offset, text)>> \o @,
                    !.duration = IF @ < rounded_offset THEN @ + raster ELSE @]

\* add text to existing node
AddText(sec, offset, text) ==
    LET rounded_offset == round(offset, HintRaster)
    IN  [sec EXCEPT !.text = Append(@, Hint(rounded_offset, text)),
                    !.duration = IF @ < rounded_offset THEN @ + raster ELSE @]

MutCloseDropped(cur, sections) == sections

\* close existing node
Close(cur, sections) ==
    IF cur # <<>> THEN Append(sections, cur[1]) ELSE sections

MutNewStartUnchained(cur, t) == round(t, raster)

MutNewStartRaw(cur, t) ==
    IF cur # <<>> THEN cur[1].start + cur[1].duration ELSE t

NewStart(cur, t) ==
    IF cur # <<>> THEN cur[1].start + cur[1].duration ELSE round(t, raster)

MutNewSectionSnapped(start, p, text) ==
    [start |-> start, duration |-> raster, power |-> p,
     text |-> IF text # None THEN <<Hint(round(0, HintRaster), text)>> ELSE <<>>]

\* start new node
NewSection(start, p, text) ==
    [start |-> start, duration |-> raster, power |-> p,
     text |-> IF text # None THEN <<Hint(0, text)>> ELSE <<>>]

\* one iteration of `for step in steps`
TranslateStep ==
    /\ pc = "translate"
    /\ pos < Len(steps)
    /\ pos' = pos + 1
    /\ LET step == steps[pos + 1]
           t == local_time(step)
           p == power(step)
           offset == Offset(cur_sec, t)
           cur == Adjust(cur_sec, t)
           arm == Decide(cur, p, step.text)
       IN  CASE arm = "add_text" ->
                  /\ cur_sec' = <<AddText(cur[1], offset, step.text)>>
                  /\ out' = out
             [] arm = "new_section" ->
                  /\ out' = Close(cur, out)
                  /\ cur_sec' = <<NewSection(NewStart(cur, t), p, step.text)>>
             [] OTHER ->
                  /\ cur_sec' = cur
                  /\ out' = out
    /\ UNCHANGED <<cfgVars, pc, line, records, steps, last_time, err, stdout, roundVars>>

\* after the loop: the open section is pushed and out is returned
TranslateEnd ==
    /\ pc = "translate"
    /\ pos = Len(steps)
    /\ out' = Close(cur_sec, out)
    /\ cur_sec' = <<>>
    /\ pc' = RunNext("translate", TRUE)
    /\ UNCHANGED <<cfgVars, line, records, steps, last_time, pos, err, stdout, roundVars>>

(* ------------------------------ Display -------------------------------- *)
\* write_sections: one SteadyState element per section, one textevent per hint
write_sections(sections) ==
    [i \in 1..Len(sections) |->
        [Duration |-> sections[i].duration,
         Power |-> sections[i].power,
         textevents |-> [j \in 1..Len(sections[i].text) |->
                            [timeoffset |-> sections[i].text[j].offset,
                             message |-> sections[i].text[j].text]]]]

\* println!("{}", course.to_string()...)
Println ==
    /\ pc = "println"
    /\ stdout' = <<write_sections(out)>>
    /\ pc' = RunNext("println", TRUE)
    /\ UNCHANGED <<cfgVars, line, records, steps, last_time, pos, out, cur_sec, err, roundVars>>

(* --------------------------- specifications ---------------------------- *)
Init ==
    /\ time_mode \in TimeModes
    /\ ftp \in Ftps
    /\ scale \in Scales
    /\ \E s \in Setups : raster = s.raster /\ acceleration = s.acceleration
    /\ pc = "main"
    /\ line = 0
    /\ records = <<>>
    /\ steps = <<>>
    /\ last_time = 0
    /\ pos = 0
    /\ out = <<>>
    /\ cur_sec = <<>>
    /\ err = NoError
    /\ stdout = <<>>
    /\ arg_offset = 0
    /\ arg_step = 1
    /\ ret_round = None

Next ==
    \/ Main
    \/ Open
    \/ ReadRecord
    \/ ReadEnd
    \/ ParseRecord
    \/ ParseEnd
    \/ TranslateStep
    \/ TranslateEnd
    \/ Println

Spec == Init /\ [][Next]_vars

\* round exercised on its own, as test_round does
InitRound ==
    /\ time_mode = "time"
    /\ ftp \in Ftps
    /\ scale \in Scales
    /\ raster = DEFAULT_DURATION_RASTER
    /\ acceleration = 1
    /\ pc = "round"
    /\ line = 0
    /\ records = <<>>
    /\ steps = <<>>
    /\ last_time = 0
    /\ pos = 0
    /\ out = <<>>
    /\ cur_sec = <<>>
    /\ err = NoError
    /\ stdout = <<>>
    /\ arg_offset \in 0..MaxOffset
    /\ arg_step \in 1..MaxStep
    /\ ret_round = None

RoundCall ==
    /\ pc = "round"
    /\ ret_round' = round(arg_offset, arg_step)
    /\ pc' = "returned"
    /\ UNCHANGED <<cfgVars, line, records, steps, last_time, pos, out, cur_sec,
                   err, stdout, arg_offset, arg_step>>

NextRound == RoundCall

SpecRound == InitRound /\ [][NextRound]_vars

(* ------------------------------- claims -------------------------------- *)
\* the sections translate holds: the closed ones and the open one
Sections == out \o cur_sec

\* the run is past parse_records, which returned Ok
Parsed == pc \in {"translate", "println", "done"}

\* translate has returned
Translated == pc \in {"println", "done"}

PowerSteps(ss) == SelectSeq(ss, LAMBDA s : s.watts # None)

\* lines whose time is before the time of the line above, all times up to it being well formed
Decreases(rs) ==
    {i \in 2..Len(rs) : /\ \A j \in 1..i : rs[j].time # BadTime
                        /\ rs[i].time < rs[i - 1].time}

Least(S) == CHOOSE m \in S : \A n \in S : m <= n

\* C1: in "time" mode, when some row's time is strictly less than the time of
\* the row before it, parse_records fails with an ordering error naming that
\* row's 1-based line, and the run produces no sections and no document.
C1_OrderingErrorOnDecrease ==
    (/\ time_mode = "time"
     /\ pc \in {"translate", "println", "done", "failed"}
     /\ err.kind \notin {"io", "csv"}
     /\ Decreases(records) # {})
    => (/\ pc = "failed"
        /\ err = Error("order", Least(Decreases(records)))
        /\ out = <<>>
        /\ stdout = <<>>)

\* number of maximal runs of consecutive power-bearing samples with the same transformed power
Runs(ss) ==
    LET ps == PowerSteps(ss)
    IN  Cardinality({i \in 1..Len(ps) : i = 1 \/ power(ps[i]) # power(ps[i - 1])})

\* C2 (as stated): translate outputs exactly as many sections as there are
\* maximal runs of consecutive power-bearing samples with the same transformed power.
C2_SectionPerRun == Translated => Len(out) = Runs(steps)

\* C2 (amended): translate outputs exactly as many sections as there are
\* power-bearing samples; samples of equal power are not merged.
C2_SectionPerPowerSample == Translated => Len(out) = Len(PowerSteps(steps))

C2_Witness ==
    /\ pc = "done"
    /\ Len(PowerSteps(steps)) = 3
    /\ Runs(steps) = 1
    /\ Len(out) = 3

\* C3: consecutive sections are chained, start[i+1] = start[i] + duration[i]
\* with the duration the section has in the output; starts are non-decreasing.
C3_Chained ==
    \A i \in 1..(Len(Sections) - 1) :
        /\ Sections[i + 1].start = Sections[i].start + Sections[i].duration
        /\ Sections[i].start <= Sections[i + 1].start

C3_Witness ==
    /\ pc = "done"
    /\ Len(out) = 3
    /\ out[1].duration > raster
    /\ out[2].duration > raster

\* C4: the open section's duration and the duration of every section in the
\* output is at least one raster unit and a positive multiple of it.
C4_DurationRaster ==
    \A i \in 1..Len(Sections) :
        /\ Sections[i].duration >= raster
        /\ Sections[i].duration % raster = 0

\* an annotation behind the section's end has extended the open section
C4_Witness ==
    /\ pc = "translate"
    /\ cur_sec # <<>>
    /\ cur_sec[1].duration = 2 * raster
    /\ \E j \in 1..Len(cur_sec[1].text) :
          /\ cur_sec[1].text[j].offset > raster
          /\ cur_sec[1].text[j].offset % raster # 0

\* the rows 00:00:00,100,"" / 00:00:30,150,"go" / 00:01:00,150,"" with
\* time mode "time", ftp 150, scale 1.0, acceleration 1.0 and raster 30
Scenario ==
    /\ time_mode = "time"
    /\ ftp = 150
    /\ scale = 1
    /\ acceleration = 1
    /\ raster = 30
    /\ records = <<[time |-> 0, power |-> 100, text |-> None],
                   [time |-> 30, power |-> 150, text |-> 2],
                   [time |-> 60, power |-> 150, text |-> None]>>

\* C5 (as stated): the scenario produces the two sections
\* {start 0, duration 30, power 0.67}, {start 30, duration 60, power 1.00, [{0, "go"}]}.
C5_ScenarioTwoSections ==
    (Scenario /\ Translated)
    => out = <<[start |-> 0, duration |-> 30, power |-> 67, text |-> <<>>],
               [start |-> 30, duration |-> 60, power |-> 100, text |-> <<Hint(0, 2)>>]>>

\* C5 (amended): the scenario produces the three sections
\* {start 30, duration 30, power 0.67}, {start 60, duration 30, power 1.00, [{0, "go"}]},
\* {start 90, duration 30, power 1.00}.
C5_ScenarioThreeSections ==
    (Scenario /\ Translated)
    => out = <<[start |-> 30, duration |-> 30, power |-> 67, text |-> <<>>],
               [start |-> 60, duration |-> 30, power |-> 100, text |-> <<Hint(0, 2)>>],
               [start |-> 90, duration |-> 30, power |-> 100, text |-> <<>>]>>

C5_Witness == Scenario /\ pc = "done" /\ stdout # <<>>

\* step i carries an annotation and no power
TextOnly(i) == steps[i].watts = None /\ steps[i].text # None

\* number of power-bearing samples among the first i steps
Opened(i) == Len(PowerSteps(SubSeq(steps, 1, i)))

\* the <<section, hint>> places where text appears
Places(text) ==
    {pl \in (1..Len(Sections)) \X (1..MaxRows + 1) :
        /\ pl[2] <= Len(Sections[pl[1]].text)
        /\ Sections[pl[1]].text[pl[2]].text = text}

\* C6: an annotation-only sample processed while no section is open leaves
\* current none and output empty, raises no error, and its text appears in no
\* section of the output.
C6_OrphanAnnotationDropped ==
    /\ [][(/\ pc = "translate"
           /\ pos < Len(steps)
           /\ cur_sec = <<>>
           /\ TextOnly(pos + 1))
          => (/\ cur_sec' = <<>>
              /\ out = <<>>
              /\ out' = <<>>
              /\ pc' = "translate"
              /\ err' = NoError)]_vars
    /\ [](\A i \in 1..Len(steps) :
            (Parsed /\ TextOnly(i) /\ Opened(i) = 0)
            => (/\ Places(steps[i].text) = {}
                /\ (stdout # <<>> =>
                      \A s \in 1..Len(stdout[1]) :
                        \A j \in 1..Len(stdout[1][s].textevents) :
                          stdout[1][s].textevents[j].message # steps[i].text)))

C6_Witness ==
    /\ pc = "done"
    /\ Len(steps) = 3
    /\ TextOnly(1)
    /\ TextOnly(2)
    /\ Len(out) = 1

\* C7: an annotation-only sample processed while a section is open appears
\* exactly once, in the section opened by the most recent preceding
\* power-bearing sample; annotations keep arrival order within their section.
C7_AnnotationInOpenSection ==
    Parsed =>
      /\ \A i \in 1..pos :
            (TextOnly(i) /\ Opened(i) > 0)
            => (/\ Cardinality(Places(steps[i].text)) = 1
                /\ \A pl \in Places(steps[i].text) : pl[1] = Opened(i))
      /\ \A s \in 1..Len(Sections) :
            \A j \in 1..(Len(Sections[s].text) - 1) :
                Sections[s].text[j].text < Sections[s].text[j + 1].text

C7_Witness ==
    /\ pc = "done"
    /\ Len(steps) = 3
    /\ TextOnly(2)
    /\ Len(out) = 2
    /\ Places(steps[2].text) = {<<1, 1>>}

RECURSIVE SumOfDurations(_, _)
\* sum of the time fields of rows 1..n
SumOfDurations(rs, n) == IF n = 0 THEN 0 ELSE rs[n].time + SumOfDurations(rs, n - 1)

\* C8: in duration mode the first row's resolved time is 0, row i's resolved
\* time is the sum of the durations of rows 1..i-1, and resolved times are
\* non-decreasing.
C8_ResolvedTimeIsSum ==
    (time_mode = "duration" /\ Parsed)
    => \A i \in 1..Len(steps) :
          /\ steps[i].time = SumOfDurations(records, i - 1)
          /\ (i > 1 => steps[i - 1].time <= steps[i].time)

Abs(n) == IF n < 0 THEN -n ELSE n

\* C9: round(x, r) is a positive multiple of r, at least r, the multiple of r
\* nearest to x (ties up) when that multiple is at least r and r otherwise,
\* and at most r away from x.
C9_RoundNearestMultiple ==
    pc = "returned" =>
      /\ ret_round > 0
      /\ ret_round >= arg_step
      /\ ret_round % arg_step = 0
      /\ \E m \in 0..(arg_offset + 1) :
            LET n == m * arg_step
            IN  /\ 2 * n - arg_step <= 2 * arg_offset
                /\ 2 * arg_offset < 2 * n + arg_step
                /\ ret_round = IF n >= arg_step THEN n ELSE arg_step
      /\ Abs(ret_round - arg_offset) <= arg_step

\* a tie between two multiples, rounded up
C9_Witness ==
    /\ pc = "returned"
    /\ 2 * arg_offset = 3 * arg_step
    /\ ret_round = 2 * arg_step

\* C10: the document is written only after every row was read, parsed,
\* time-resolved and aggregated successfully; a failed run has written nothing.
C10_NoPartialOutput ==
    /\ stdout # <<>> =>
          /\ pc = "done"
          /\ err = NoError
          /\ Len(steps) = Len(records)
          /\ pos = Len(steps)
          /\ cur_sec = <<>>
          /\ Len(out) = Len(PowerSteps(steps))
          /\ stdout = <<write_sections(out)>>
    /\ (pc \in {"failed", "panicked"} \/ err # NoError) => stdout = <<>>

C10_Witness ==
    /\ pc = "done"
    /\ Len(records) = 3
    /\ Len(stdout[1]) = 2

\* C11: with a time mode other than "time" and "duration" the program fails
\* before the input file is opened and before any row is read or processed,
\* and writes nothing.
C11_InvalidModeFailsFirst ==
    time_mode \notin {"time", "duration"} =>
      /\ pc \in {"main", "panicked"}
      /\ line = 0
      /\ records = <<>>
      /\ steps = <<>>
      /\ out = <<>>
      /\ cur_sec = <<>>
      /\ err = NoError
      /\ stdout = <<>>

C11_Witness == pc = "panicked" /\ time_mode = "stopwatch"

\* translate takes the next sample from the loop
Stepping == pc = "translate" /\ pos < Len(steps) /\ pos' = pos + 1

\* the sample the loop takes next
NextStep == steps[pos + 1]

\* C12: every power-bearing sample closes the open section (if any) and opens
\* exactly one new section, whatever its power; every opened section is pushed
\* exactly once, in the order opened, the last one at the end of input without
\* adjustment; so section i carries the transformed power of the i-th
\* power-bearing sample.
C12_SectionPerPowerSampleInOrder ==
    /\ [][(Stepping /\ NextStep.watts # None)
          => (/\ Len(out') = Len(out) + Len(cur_sec)
              /\ SubSeq(out', 1, Len(out)) = out
              /\ cur_sec # <<>> =>
                    /\ out'[Len(out')].start = cur_sec[1].start
                    /\ out'[Len(out')].power = cur_sec[1].power
                    /\ out'[Len(out')].text = cur_sec[1].text
              /\ Len(cur_sec') = 1
              /\ cur_sec'[1].power = power(NextStep))]_vars
    /\ [][(Stepping /\ NextStep.watts = None)
          => (out' = out /\ Len(cur_sec') = Len(cur_sec))]_vars
    /\ [][(pc = "translate" /\ pc' # "translate")
          => (out' = out \o cur_sec /\ cur_sec' = <<>>)]_vars
    /\ [](Translated =>
            /\ Len(out) = Len(PowerSteps(steps))
            /\ \A i \in 1..Len(out) : out[i].power = power(PowerSteps(steps)[i]))

C12_Witness ==
    /\ pc = "done"
    /\ Len(out) = 3
    /\ out[1].power = out[2].power
    /\ out[2].power # out[3].power

\* C13: each section in translate's output contains all of its annotations:
\* every annotation's offset is at most the section's final duration.
C13_AnnotationsContained ==
    Translated =>
      \A s \in 1..Len(out) :
        \A j \in 1..Len(out[s].text) : out[s].text[j].offset <= out[s].duration

\* the transformed times of the first n steps do not decrease
NonDecreasing(n) ==
    \A i \in 1..(n - 1) : local_time(steps[i]) <= local_time(steps[i + 1])

\* the duration the open section has once the step has dealt with it: the one
\* it is pushed with when the sample closes it, else the one it is left with
DurationAfterStep ==
    IF NextStep.watts # None THEN out'[Len(out')].duration ELSE cur_sec'[1].duration

\* the step is the one the code takes from an open section whose duration,
\* right before the arm of the match is chosen, is d
ArmTakenFrom(d) ==
    LET t == local_time(NextStep)
        offset == IF t > cur_sec[1].start THEN t - cur_sec[1].start ELSE 0
    IN  IF NextStep.watts = None /\ NextStep.text # None
        THEN DurationAfterStep = IF d < round(offset, HintRaster) THEN d + raster ELSE d
        ELSE DurationAfterStep = d

\* C14 (as stated): whenever a sample is processed while a section is open, the
\* section's duration right before the action is chosen is
\* round(max(0, sample_time - section.start), raster), also for sample times
\* at or before section.start and whatever the duration was before.
C14_DurationRecomputedAlways ==
    [][(Stepping /\ cur_sec # <<>>)
       => ArmTakenFrom(round(Max(0, local_time(NextStep) - cur_sec[1].start), raster))]_vars

\* C14 (amended): the duration right before the action is chosen is
\* round(sample_time - section.start, raster) when the sample is after the
\* section's start, and is left as it was when the sample is at or before it.
C14_DurationRecomputedAfterStart ==
    [][(Stepping /\ cur_sec # <<>>)
       => ArmTakenFrom(IF local_time(NextStep) > cur_sec[1].start
                       THEN round(local_time(NextStep) - cur_sec[1].start, raster)
                       ELSE cur_sec[1].duration)]_vars

\* in an input whose times do not decrease, a sample at or before the start of
\* an open section whose duration is no longer one raster
C14_Witness ==
    /\ pc = "translate"
    /\ 1 < pos
    /\ pos < Len(steps)
    /\ cur_sec # <<>>
    /\ local_time(NextStep) <= cur_sec[1].start
    /\ cur_sec[1].duration > raster
    /\ NonDecreasing(Len(steps))

\* C15: while a section stays open and the transformed times do not decrease,
\* its duration never decreases from one processed sample to the next,
\* including the sample that closes it.
C15_DurationNeverShrinks ==
    [][(Stepping /\ cur_sec # <<>> /\ NonDecreasing(pos + 1))
       => DurationAfterStep >= cur_sec[1].duration]_vars


\* C16: the annotation of a sample that also carries power is recorded only in
\* the newly opened section, as its single annotation with offset 0, and the
\* section being closed receives none; a section opened by a power-only sample
\* starts with no annotation; a new section's duration is one raster unit.
C16_NewSectionAnnotation ==
    [][(Stepping /\ NextStep.watts # None)
       => (/\ cur_sec'[1].text = IF NextStep.text # None
                                 THEN <<[offset |-> 0, text |-> NextStep.text]>>
                                 ELSE <<>>
           /\ cur_sec'[1].duration = raster
           /\ cur_sec # <<>> => out'[Len(out')].text = cur_sec[1].text
           /\ \A s \in 1..Len(out') :
                \A j \in 1..Len(out'[s].text) : out'[s].text[j].text # NextStep.text)]_vars

\* a sample with power and text has closed a section that has an annotation of its own
C16_Witness ==
    /\ pc = "translate"
    /\ pos = 3
    /\ steps[pos].watts # None
    /\ steps[pos].text # None
    /\ cur_sec = <<[start |-> out[1].start + out[1].duration, duration |-> raster,
                    power |-> power(steps[pos]), text |-> <<[offset |-> 0, text |-> pos]>>]>>
    /\ Len(out) = 1
    /\ Len(out[1].text) = 1

\* C17: the start of the first output section is round(t, raster) for the
\* transformed time t of the first power-bearing sample: a positive multiple of
\* the raster and at least one raster unit, also when t = 0.
C17_FirstStartRounded ==
    Len(Sections) > 0 =>
      /\ Sections[1].start = round(local_time(PowerSteps(steps)[1]), raster)
      /\ Sections[1].start >= raster
      /\ Sections[1].start > 0
      /\ Sections[1].start % raster = 0

C17_Witness ==
    /\ pc = "done"
    /\ Len(out) = 2
    /\ local_time(PowerSteps(steps)[1]) = 0
    /\ out[1].start = raster

====
